---- MODULE Spec2Model ----
(***************************************************************************)
(* The executor side of the WaterCI core/executor protocol, as implemented *)
(* by src/src/main.rs: main() and run().  The model follows the control    *)
(* flow of run(): connect, register, then the dispatch loop, with one      *)
(* action per blocking call (connect, write, read, Executor::execute).     *)
(*                                                                         *)
(* The wire format is MessagePack as produced by rmp_serde.  A message is  *)
(* modelled as the sequence of the tokens the decoder reads one at a time: *)
(* marker bytes (map, array, str, nil) and the data that follows a str     *)
(* marker.  The decoder reports a failed read of a marker byte as          *)
(* InvalidMarkerRead(io error) and a failed read of data as                *)
(* InvalidDataRead(io error); run() classifies on exactly that difference. *)
(***************************************************************************)
EXTENDS Integers, Sequences, FiniteSets, TLC

\* ---------------------------------------------------------------- bounds
\* Most messages read by the dispatch loop in one run.
MaxReads == 2
\* Longest job list of a BuildRequest.
MaxJobs == 2

\* ------------------------------------------------------------ data model
Jobs == {"A", "B"}
Ids == {"X", "Y"}
RepoUrl == "url"
Reference == "ref"

RECURSIVE SeqsUpTo(_, _)
SeqsUpTo(S, n) ==
    IF n = 0 THEN {<<>>}
    ELSE LET shorter == SeqsUpTo(S, n - 1)
         IN shorter \cup {Append(s, x) : s \in {t \in shorter : Len(t) = n - 1}, x \in S}

JobLists == SeqsUpTo(Jobs, MaxJobs)

\* ExecutorMessage: one record shape for every variant; the fields a variant
\* does not have are empty.
Msg(type, arg, jobs) == [type |-> type, arg |-> arg, jobs |-> jobs]
NoMsg == Msg("", "", <<>>)
ExecutorRegister == Msg("ExecutorRegister", "", <<>>)
ExecutorRegisterResponse(id) == Msg("ExecutorRegisterResponse", id, <<>>)
BuildRequest(jobs) == Msg("BuildRequest", "", jobs)
JobResult(res) == Msg("JobResult", res, <<>>)
ExecutorStatusQuery == Msg("ExecutorStatusQuery", "", <<>>)
ExecutorStatusResponse(status) == Msg("ExecutorStatusResponse", status, <<>>)
CloseConnection(id) == Msg("CloseConnection", id, <<>>)

UnitVariants == {"ExecutorRegister", "ExecutorStatusQuery"}

\* Everything the peer can put on the wire as one well-formed message.
PeerMessages ==
    {ExecutorRegister, ExecutorStatusQuery, ExecutorStatusResponse("Available")}
        \cup {ExecutorRegisterResponse(id) : id \in Ids}
        \cup {CloseConnection(id) : id \in Ids}
        \cup {BuildRequest(js) : js \in JobLists}
        \cup {JobResult(j) : j \in Jobs}

\* ------------------------------------------------------------ wire codec
Tok(k, n, v) == [k |-> k, n |-> n, v |-> v]
MapTok(n) == Tok("map", n, "")
ArrTok(n) == Tok("arr", n, "")
StrTok == Tok("str", 0, "")
NilTok == Tok("nil", 0, "")
DatTok(v) == Tok("dat", 0, v)

SerStr(s) == <<StrTok, DatTok(s)>>

RECURSIVE SerStrs(_)
SerStrs(ss) == IF ss = <<>> THEN <<>> ELSE SerStr(Head(ss)) \o SerStrs(Tail(ss))

\* rmp_serde: a unit variant is its name as a str; any other variant is a
\* one-entry map from the name to the payload; a struct is an array.
Serialize(m) ==
    IF m.type \in UnitVariants THEN SerStr(m.type)
    ELSE <<MapTok(1)>> \o SerStr(m.type) \o
         CASE m.type = "ExecutorRegisterResponse" -> <<ArrTok(1)>> \o SerStr(m.arg)
           [] m.type = "CloseConnection" -> SerStr(m.arg)
           [] m.type = "ExecutorStatusResponse" -> SerStr(m.arg)
           [] m.type = "JobResult" -> <<ArrTok(1)>> \o SerStr(m.arg)
           [] m.type = "BuildRequest" ->
                <<ArrTok(3)>> \o SerStr(RepoUrl) \o SerStr(Reference)
                    \o <<ArrTok(1), ArrTok(Len(m.jobs))>> \o SerStrs(m.jobs)

\* io::ErrorKind of the failure that ends the stream.
DisconnectKinds == {"ConnectionReset", "ConnectionAborted", "UnexpectedEof"}
IoErrorKinds == DisconnectKinds \cup {"TimedOut"}

\* A decoding step's result: err = "" on success; io is the io::ErrorKind a
\* read error carries; pos is the next token to read.
Step(err, io, v, n, pos) == [err |-> err, io |-> io, v |-> v, n |-> n, pos |-> pos]

\* rmp::decode::read_marker
ReadMarker(buf, p, kind) ==
    IF p > Len(buf) THEN Step("InvalidMarkerRead", kind, "", 0, p)
    ELSE IF buf[p].k = "dat" THEN Step("TypeMismatch", "", "", 0, p + 1)
    ELSE Step("", "", buf[p].k, buf[p].n, p + 1)

\* A str: its marker, then its bytes.
ReadStr(buf, p, kind) ==
    LET m == ReadMarker(buf, p, kind)
    IN IF m.err # "" THEN m
       ELSE IF m.v # "str" THEN Step("TypeMismatch", "", "", 0, m.pos)
       ELSE IF m.pos > Len(buf) THEN Step("InvalidDataRead", kind, "", 0, m.pos)
       ELSE IF buf[m.pos].k # "dat" THEN Step("Utf8Error", "", "", 0, m.pos + 1)
       ELSE Step("", "", buf[m.pos].v, 0, m.pos + 1)

\* An array header of any length (the length is returned in n).
ReadArr(buf, p, kind) ==
    LET m == ReadMarker(buf, p, kind)
    IN IF m.err # "" THEN m
       ELSE IF m.v # "arr" THEN Step("TypeMismatch", "", "", 0, m.pos)
       ELSE m

\* An array header of a struct with n fields.
ReadStruct(buf, p, kind, n) ==
    LET m == ReadArr(buf, p, kind)
    IN IF m.err # "" THEN m
       ELSE IF m.n # n THEN Step("LengthMismatch", "", "", 0, m.pos)
       ELSE m

\* The result of a whole deserialize call; used is the number of tokens it
\* consumed from the stream.
Decoded(err, io, msg, used) == [err |-> err, io |-> io, msg |-> msg, used |-> used]
Failed(s) == Decoded(s.err, s.io, NoMsg, s.pos - 1)

RECURSIVE ReadJobs(_, _, _, _, _)
ReadJobs(buf, p, kind, n, acc) ==
    IF n = 0 THEN Decoded("", "", BuildRequest(acc), p - 1)
    ELSE LET s == ReadStr(buf, p, kind)
         IN IF s.err # "" THEN Failed(s)
            ELSE IF s.v \notin Jobs THEN Decoded("Syntax", "", NoMsg, s.pos - 1)
            ELSE ReadJobs(buf, s.pos, kind, n - 1, Append(acc, s.v))

ReadBuildRequest(buf, p, kind) ==
    LET h == ReadStruct(buf, p, kind, 3)
    IN IF h.err # "" THEN Failed(h)
       ELSE LET u == ReadStr(buf, h.pos, kind)
            IN IF u.err # "" THEN Failed(u)
               ELSE LET r == ReadStr(buf, u.pos, kind)
                    IN IF r.err # "" THEN Failed(r)
                       ELSE LET c == ReadStruct(buf, r.pos, kind, 1)
                            IN IF c.err # "" THEN Failed(c)
                               ELSE LET a == ReadArr(buf, c.pos, kind)
                                    IN IF a.err # "" THEN Failed(a)
                                       ELSE ReadJobs(buf, a.pos, kind, a.n, <<>>)

\* A payload that is a struct of one string field.
ReadStruct1(buf, p, kind, type) ==
    LET h == ReadStruct(buf, p, kind, 1)
    IN IF h.err # "" THEN Failed(h)
       ELSE LET s == ReadStr(buf, h.pos, kind)
            IN IF s.err # "" THEN Failed(s)
               ELSE Decoded("", "", Msg(type, s.v, <<>>), s.pos - 1)

\* A payload that is one string.
ReadNewtype(buf, p, kind, type) ==
    LET s == ReadStr(buf, p, kind)
    IN IF s.err # "" THEN Failed(s)
       ELSE IF type = "ExecutorStatusResponse" /\ s.v # "Available"
            THEN Decoded("Syntax", "", NoMsg, s.pos - 1)
       ELSE Decoded("", "", Msg(type, s.v, <<>>), s.pos - 1)

ReadPayload(buf, p, kind, type) ==
    CASE type = "BuildRequest" -> ReadBuildRequest(buf, p, kind)
      [] type \in {"ExecutorRegisterResponse", "JobResult"} -> ReadStruct1(buf, p, kind, type)
      [] type \in {"CloseConnection", "ExecutorStatusResponse"} -> ReadNewtype(buf, p, kind, type)
      [] OTHER -> Decoded("Syntax", "", NoMsg, p - 1)

\* ExecutorMessage::deserialize(&mut Deserializer::new(&mut stream)) on a
\* stream that holds the tokens buf and then fails every read with kind.
Deserialize(buf, kind) ==
    LET m == ReadMarker(buf, 1, kind)
    IN IF m.err # "" THEN Failed(m)
       ELSE IF m.v = "str"
            THEN IF 2 > Len(buf) THEN Decoded("InvalidDataRead", kind, NoMsg, 1)
                 ELSE IF buf[2].k # "dat" THEN Decoded("Utf8Error", "", NoMsg, 2)
                 ELSE IF buf[2].v \in UnitVariants
                      THEN Decoded("", "", Msg(buf[2].v, "", <<>>), 2)
                 ELSE Decoded("Syntax", "", NoMsg, 2)
       ELSE IF m.v = "map" /\ m.n = 1
            THEN LET name == ReadStr(buf, 2, kind)
                 IN IF name.err # "" THEN Failed(name)
                    ELSE ReadPayload(buf, name.pos, kind, name.v)
       ELSE Decoded("TypeMismatch", "", NoMsg, 1)

\* ------------------------------------------------------- the peer's side
WholeBufs == {Serialize(m) : m \in PeerMessages}
\* A message cut short by the stream failing: every strict prefix, the empty
\* one (a failure between two messages) included.
TruncatedBufs == UNION {{SubSeq(b, 1, c) : c \in 0..(Len(b) - 1)} : b \in WholeBufs}
\* Bytes that are no ExecutorMessage.
GarbageBufs ==
    {<<NilTok>>, <<MapTok(2)>>, <<MapTok(1), NilTok>>, SerStr("Bogus"),
     <<MapTok(1)>> \o SerStr("Bogus") \o <<NilTok>>,
     <<MapTok(1)>> \o SerStr("BuildRequest") \o <<ArrTok(2)>>,
     <<MapTok(1)>> \o SerStr("CloseConnection") \o <<StrTok, NilTok>>,
     <<MapTok(1)>> \o SerStr("ExecutorStatusResponse") \o SerStr("Busy")}
\* What one read of the stream can find: tokens, then the failure that follows.
StreamInputs == (WholeBufs \cup TruncatedBufs \cup GarbageBufs) \X IoErrorKinds
\* What one deserialize call can return.
ReadOutcomes == {Deserialize(in[1], in[2]) : in \in StreamInputs}

\* ----------------------------------------------------------------- state
VARIABLES
    pc,        \* where main()/run() stands
    exit,      \* the process exit status; -1 while it runs
    cause,     \* the statement that ended the run
    uid,       \* the identity bound by the handshake; "" before it
    out,       \* the messages written to the stream, in order
    last,      \* what the latest deserialize call returned
    reads,     \* messages read by the dispatch loop so far
    req,       \* the job list of the BuildRequest being served
    jobs,      \* the jobs the for loop has still to run
    executed,  \* the jobs of req handed to Executor::execute so far
    res,       \* the result execute returned, not yet written
    base,      \* Len(out) when the BuildRequest being served was read
    crashed,   \* TRUE once a call of Executor::execute has returned Err
    wfail,     \* TRUE once a write to the stream has returned Err
    cmds,      \* the messages the dispatch loop has decoded, in order
    earned,    \* the responses called for so far: one per StatusQuery
               \* dispatched, one per execution that returned Ok
    arrived    \* what the peer has sent behind the BuildRequest being
               \* served and the next read will find; NoRead if nothing

vars == <<pc, exit, cause, uid, out, last, reads, req, jobs, executed, res, base,
          crashed, wfail, cmds, earned, arrived>>

NoRead == Decoded("", "", NoMsg, 0)

Init ==
    /\ pc = "main"
    /\ exit = -1
    /\ cause = ""
    /\ uid = ""
    /\ out = <<>>
    /\ last = NoRead
    /\ reads = 0
    /\ req = <<>>
    /\ jobs = <<>>
    /\ executed = <<>>
    /\ res = ""
    /\ base = 0
    /\ crashed = FALSE
    /\ wfail = FALSE
    /\ cmds = <<>>
    /\ earned = <<>>
    /\ arrived = NoRead

\* ------------------------------------------------------- main(): the exit
\* A main() that logs the Err of run() and returns normally.
ExitStatusSwallowed(result) == IF result = "Panic" THEN 101 ELSE 0

\* How run() can end: it returns Ok(()), it returns Err, or it panics.
\* main() exits 1 on Err and falls off its end on Ok; a panic of the main
\* thread ends the process with status 101.
ExitStatus(result) ==
    CASE result = "Ok" -> 0
      [] result = "Err" -> 1
      [] result = "Panic" -> 101

End(result, why) ==
    /\ pc' = "exited"
    /\ exit' = ExitStatus(result)
    /\ cause' = why

\* get_config(..).expect(..): no file gives the defaults, an unreadable or
\* malformed file panics.
LoadConfig ==
    /\ pc = "main"
    /\ \E file \in {"absent", "valid", "invalid"} :
          IF file = "invalid" THEN End("Panic", "config") ELSE pc' = "connect" /\ UNCHANGED <<exit, cause>>
    /\ UNCHANGED <<uid, out, last, reads, req, jobs, executed, res, base, crashed, wfail, cmds, earned, arrived>>

\* TcpStream::connect(..)?
Connect ==
    /\ pc = "connect"
    /\ \E ok \in BOOLEAN :
          IF ok THEN pc' = "register" /\ UNCHANGED <<exit, cause>> ELSE End("Err", "connect")
    /\ UNCHANGED <<uid, out, last, reads, req, jobs, executed, res, base, crashed, wfail, cmds, earned, arrived>>

\* The stream after a write of msg that returned Ok or Err.
Written(stream, msg, ok) == IF ok THEN Append(stream, msg) ELSE stream

\* An Err of a write that is dropped instead of propagated.
WriteReturnsIgnored(ok) == "continue"

\* The ? applied to what a write returned: Err leaves run() at once.
WriteReturns(ok) == IF ok THEN "continue" ELSE "return"

\* ExecutorRegister.serialize(..)?
SendRegister ==
    /\ pc = "register"
    /\ \E ok \in BOOLEAN :
          /\ out' = Written(out, ExecutorRegister, ok)
          /\ wfail' = (wfail \/ ~ok)
          /\ IF WriteReturns(ok) = "continue"
             THEN pc' = "await_register" /\ UNCHANGED <<exit, cause>>
             ELSE End("Err", "write")
    /\ UNCHANGED <<uid, last, reads, req, jobs, executed, res, base, crashed, cmds, earned, arrived>>

\* An identity that is not taken from the response.
HandshakeIdFixed(r) == "X"

\* The handshake's reading of the response: the id of a RegisterResponse,
\* "" for whatever makes run() panic.
HandshakeId(r) ==
    IF r.err = "" /\ r.msg.type = "ExecutorRegisterResponse" THEN r.msg.arg ELSE ""

\* A handshake that accepts whatever decodes.
HandshakeVerdictLenient(r) == IF r.err # "" THEN "handshake_read" ELSE "registered"

\* Whether the handshake goes on: .expect(..) panics on a failed read, the
\* else branch of the if let panics on any other variant.
HandshakeVerdict(r) ==
    IF r.err # "" THEN "handshake_read"
    ELSE IF r.msg.type = "ExecutorRegisterResponse" THEN "registered"
    ELSE "handshake_variant"

\* deserialize(..).expect(..), then the if let .. else panic!.
ReadRegisterResponse ==
    /\ pc = "await_register"
    /\ \E r \in ReadOutcomes :
          /\ last' = r
          /\ IF HandshakeVerdict(r) = "registered"
             THEN uid' = HandshakeId(r) /\ pc' = "idle" /\ UNCHANGED <<exit, cause>>
             ELSE End("Panic", HandshakeVerdict(r)) /\ UNCHANGED uid
    /\ UNCHANGED <<out, reads, req, jobs, executed, res, base, crashed, wfail, cmds, earned, arrived>>

\* --------------------------------------------------- the dispatch loop
\* A match that honours a CloseConnection only when it names this executor.
DispatchCheckedClose(msg) ==
    CASE msg.type = "BuildRequest" -> "build"
      [] msg.type = "ExecutorStatusQuery" -> "status"
      [] msg.type = "CloseConnection" /\ msg.arg = uid -> "close"
      [] OTHER -> "invalid"

\* A match whose catch-all arm leaves the loop instead of panicking.
DispatchLenient(msg) ==
    CASE msg.type = "BuildRequest" -> "build"
      [] msg.type = "ExecutorStatusQuery" -> "status"
      [] OTHER -> "close"

\* A match that answers every variant it does not serve with a status.
DispatchAnswersAll(msg) ==
    CASE msg.type = "BuildRequest" -> "build"
      [] msg.type = "CloseConnection" -> "close"
      [] OTHER -> "status"

\* The match on the decoded message.
Dispatch(msg) ==
    CASE msg.type = "BuildRequest" -> "build"
      [] msg.type = "ExecutorStatusQuery" -> "status"
      [] msg.type = "CloseConnection" -> "close"
      [] OTHER -> "invalid"

\* A match that leaves UnexpectedEof to the catch-all arm.
ClassifyNoEof(r) ==
    IF r.err = "InvalidMarkerRead" /\ r.io \in {"ConnectionReset", "ConnectionAborted"}
    THEN "disconnect" ELSE "panic"

\* The match on a failed read: a marker read that failed with one of the
\* three disconnect kinds breaks out of the loop, everything else panics.
Classify(r) ==
    IF r.err = "InvalidMarkerRead" /\ r.io \in DisconnectKinds THEN "disconnect" ELSE "panic"

\* An answer that reports another status.
StatusReplyBusy == ExecutorStatusResponse("Busy")

\* The answer to a status query.
StatusReply == ExecutorStatusResponse("Available")

\* A for loop that takes an empty job list for the end of the session.
LoopEntryStopsOnEmpty(js) == IF js = <<>> THEN "exited" ELSE "execute"

\* Where the for loop over the jobs starts: an empty list runs no iteration.
LoopEntry(js) == IF js = <<>> THEN "idle" ELSE "execute"

\* A loop that takes the id carried by a message for its own.
LoopUidRebound(msg) ==
    IF msg.type \in {"ExecutorRegisterResponse", "CloseConnection"} THEN msg.arg ELSE uid

\* The identity after a message is dispatched: uid is an immutable binding
\* that no arm of the match assigns.
LoopUid(msg) == uid

\* What the stream holds for the next read: what has arrived already, or
\* else whatever the peer sends.
Readable == IF arrived = NoRead THEN ReadOutcomes ELSE {arrived}

\* One iteration of the loop up to its first blocking call after the read.
ReadMessage ==
    /\ pc = "idle"
    /\ reads < MaxReads
    /\ \E r \in Readable, wrote \in BOOLEAN :
          /\ last' = r
          /\ reads' = reads + 1
          /\ arrived' = NoRead
          /\ IF r.err # ""
             THEN /\ IF Classify(r) = "disconnect" THEN End("Ok", "disconnect")
                     ELSE End("Panic", "read_error")
                  /\ UNCHANGED <<uid, out, req, jobs, executed, base, wfail, cmds, earned>>
             ELSE /\ cmds' = Append(cmds, r.msg)
                  /\ uid' = LoopUid(r.msg)
                  /\ CASE Dispatch(r.msg) = "build" ->
                         /\ req' = r.msg.jobs
                         /\ jobs' = r.msg.jobs
                         /\ executed' = <<>>
                         /\ base' = Len(out)
                         /\ pc' = LoopEntry(r.msg.jobs)
                         /\ UNCHANGED <<exit, cause, out, wfail, earned>>
                    [] Dispatch(r.msg) = "status" ->
                         /\ earned' = IF r.msg.type = "ExecutorStatusQuery"
                                      THEN Append(earned, ExecutorStatusResponse("Available"))
                                      ELSE earned
                         /\ out' = Written(out, StatusReply, wrote)
                         /\ wfail' = (wfail \/ ~wrote)
                         /\ IF WriteReturns(wrote) = "continue"
                            THEN pc' = "idle" /\ UNCHANGED <<exit, cause>>
                            ELSE End("Err", "write")
                         /\ UNCHANGED <<req, jobs, executed, base>>
                    [] Dispatch(r.msg) = "close" ->
                         /\ End("Ok", "close")
                         /\ UNCHANGED <<out, req, jobs, executed, base, wfail, earned>>
                    [] OTHER ->
                         /\ End("Panic", "invalid_message")
                         /\ UNCHANGED <<out, req, jobs, executed, base, wfail, earned>>
    /\ UNCHANGED <<res, crashed>>

\* An Err of execute that is dropped instead of propagated.
ExecuteReturnsIgnored(ok) == "continue"

\* The ? applied to what execute returned: Err leaves run() at once.
ExecuteReturns(ok) == IF ok THEN "continue" ELSE "return"

\* executor.execute(job_build_request_message)?
ExecuteJob ==
    /\ pc = "execute"
    /\ executed' = Append(executed, Head(jobs))
    /\ \E ok \in BOOLEAN :
          /\ crashed' = ~ok
          /\ earned' = IF ok THEN Append(earned, JobResult(Head(jobs))) ELSE earned
          /\ IF ExecuteReturns(ok) = "continue"
             THEN /\ res' = Head(jobs)
                  /\ pc' = "write_result"
                  /\ UNCHANGED <<exit, cause>>
             ELSE End("Err", "execute") /\ UNCHANGED res
    /\ UNCHANGED <<uid, out, last, reads, req, jobs, base, wfail, cmds, arrived>>

\* A for loop that gives up once the peer has called the session off.
AfterResultCancellable(left) ==
    IF left = <<>> \/ arrived # NoRead THEN "idle" ELSE "execute"

\* A for loop after which run() leaves the dispatch loop.
AfterResultLost(left) == IF left = <<>> THEN "exited" ELSE "execute"

\* A for loop that leaves after its first iteration.
AfterResultBreak(left) == "idle"

\* Where the for loop goes after a result is written.
AfterResult(left) == IF left = <<>> THEN "idle" ELSE "execute"

\* ExecutorMessage::JobResult(res).write(&mut stream)?
WriteJobResult ==
    /\ pc = "write_result"
    /\ \E ok \in BOOLEAN :
          /\ out' = Written(out, JobResult(res), ok)
          /\ wfail' = (wfail \/ ~ok)
          /\ IF WriteReturns(ok) = "continue"
             THEN /\ jobs' = Tail(jobs)
                  /\ pc' = AfterResult(Tail(jobs))
                  /\ UNCHANGED <<exit, cause>>
             ELSE End("Err", "write") /\ UNCHANGED jobs
    /\ UNCHANGED <<uid, last, reads, req, executed, res, base, crashed, cmds, earned, arrived>>

\* What the peer can send to call the session off: a CloseConnection, or
\* nothing more before it resets the connection.
CancelOutcomes ==
    {Deserialize(Serialize(CloseConnection(id)), "ConnectionReset") : id \in Ids}
        \cup {Deserialize(<<>>, "ConnectionReset")}

\* The peer, while a BuildRequest is being served: its next message, or its
\* disconnect, reaches the socket before run() is back at the read.
PeerSends ==
    /\ pc \in {"execute", "write_result"}
    /\ arrived = NoRead
    /\ arrived' \in CancelOutcomes
    /\ UNCHANGED <<pc, exit, cause, uid, out, last, reads, req, jobs, executed, res, base,
                   crashed, wfail, cmds, earned>>

Next ==
    \/ LoadConfig
    \/ Connect
    \/ SendRegister
    \/ ReadRegisterResponse
    \/ ReadMessage
    \/ ExecuteJob
    \/ WriteJobResult
    \/ PeerSends

Spec == Init /\ [][Next]_vars

\* Spec with every call of Executor::execute and every write of a JobResult
\* returning: neither blocks for ever.
FairSpec == Spec /\ WF_vars(ExecuteJob) /\ WF_vars(WriteJobResult)

\* ---------------------------------------------------------------- claims
\* The dispatch loop's latest read returned the BuildRequest being served.
Serving == reads > 0 /\ last.err = "" /\ last.msg.type = "BuildRequest"
\* The JobResult owed for each job of the request, in job-list order.
ReqResults == [i \in 1..Len(req) |-> JobResult(req[i])]
\* What has been written since the request was read.
Sent == SubSeq(out, base + 1, Len(out))
IsPrefix(s, t) == Len(s) <= Len(t) /\ s = SubSeq(t, 1, Len(s))
\* The handshake's read has returned.
HandshakeRead == last # NoRead
\* This step is the dispatch loop's read of a message.
LoopRead == pc = "idle" /\ reads' = reads + 1
\* This step is the dispatch loop's read of a decoded message of one of types.
LoopReadOf(types) == LoopRead /\ last'.err = "" /\ last'.msg.type \in types
\* This step writes nothing, runs nothing and reads nothing.
Silent == out' = out /\ reads' = reads /\ executed' = executed

\* Jobs run in job-list order and the result of each one is on the stream
\* before the next one starts.
JobOrder ==
    Serving =>
        /\ IsPrefix(executed, req)
        /\ IsPrefix(Sent, ReqResults)
        /\ pc = "execute" => Len(Sent) = Len(executed)
        /\ pc = "write_result" => Len(Sent) = Len(executed) - 1 /\ res = executed[Len(executed)]

\* C1 as stated: a BuildRequest whose n executions all succeed gets exactly n
\* JobResult messages, the i-th for the i-th job, each written before the
\* next job starts.
C1_AllResultsSent ==
    /\ JobOrder
    /\ (Serving /\ pc = "idle") => executed = req
    /\ (Serving /\ pc \in {"idle", "exited"} /\ executed = req /\ ~crashed) => Sent = ReqResults

\* C1, amended: a BuildRequest whose n executions all succeed and whose
\* JobResult writes all succeed gets exactly n JobResult messages, the i-th
\* for the i-th job, each written before the next job starts; a write that
\* fails ends the run with only the results written before it.
C1_ResultsInOrder ==
    /\ JobOrder
    /\ (Serving /\ pc = "idle") => executed = req /\ Sent = ReqResults
    /\ (Serving /\ pc = "exited" /\ cause = "write") =>
           exit = 1 /\ Sent = SubSeq(ReqResults, 1, Len(executed) - 1)

C1_Witness ==
    /\ Serving /\ pc = "idle"
    /\ Len(req) = 2 /\ req[1] # req[2]
    /\ Sent = <<JobResult(req[1]), JobResult(req[2])>>

\* C2: when the execution of the k-th job fails, the results of jobs 1..k-1
\* and nothing else have been sent for the request, the run has ended with a
\* non-zero status, and nothing is run, written or read afterwards.
C2_FailFast ==
    /\ [](crashed =>
            /\ Serving
            /\ pc = "exited" /\ exit = 1
            /\ executed # <<>> /\ IsPrefix(executed, req)
            /\ Sent = SubSeq(ReqResults, 1, Len(executed) - 1))
    /\ [][crashed => UNCHANGED vars]_vars

C2_Witness ==
    /\ crashed /\ Len(req) = 2 /\ Len(executed) = 2
    /\ Sent = <<JobResult(req[1])>> /\ exit = 1

\* C3: RegisterRequest is the first message written and the only one written
\* before the dispatch loop is entered, and a RegisterResponse{id} as the
\* first message read enters the loop with that id bound.
C3_Handshake ==
    /\ pc \in {"main", "connect", "register"} => out = <<>>
    /\ out # <<>> => out[1] = ExecutorRegister
    /\ (reads = 0 /\ pc \in {"await_register", "idle"}) => out = <<ExecutorRegister>>
    /\ (reads = 0 /\ HandshakeRead /\ last.err = ""
            /\ last.msg.type = "ExecutorRegisterResponse")
           => pc = "idle" /\ uid = last.msg.arg /\ uid \in Ids
    /\ uid # "" => HandshakeRead

C3_Witness ==
    /\ pc = "idle" /\ reads = 0 /\ uid = "Y"
    /\ last.msg = ExecutorRegisterResponse("Y") /\ out = <<ExecutorRegister>>

\* The handshake's read returned something other than a RegisterResponse.
HandshakeFailed ==
    reads = 0 /\ HandshakeRead
        /\ (last.err # "" \/ last.msg.type # "ExecutorRegisterResponse")

\* C4: when the first message read is another variant, or the read fails to
\* decode or fails because the peer is gone, the process ends with a
\* non-zero status without entering the dispatch loop and writes nothing
\* more; no failure of this read ends the run with success.
C4_HandshakeFailure ==
    /\ [](HandshakeFailed =>
            /\ pc = "exited" /\ exit = 101
            /\ uid = "" /\ out = <<ExecutorRegister>>)
    /\ [][HandshakeFailed => UNCHANGED vars]_vars

C4_Witness ==
    /\ HandshakeFailed /\ pc = "exited" /\ exit = 101
    /\ last.err = "InvalidMarkerRead" /\ last.io = "UnexpectedEof" /\ last.used = 0

\* No status other than Available is on the stream.
OnlyAvailable ==
    \A i \in 1..Len(out) : out[i].type = "ExecutorStatusResponse" => out[i] = ExecutorStatusResponse("Available")

\* C5 as stated: every StatusQuery read in Idle has exactly one
\* StatusResponse(Available) written for it and leaves the loop in Idle, and
\* no other status is ever sent.
C5_StatusAlwaysAnswered ==
    /\ [][LoopReadOf({"ExecutorStatusQuery"}) =>
            /\ out' = Append(out, ExecutorStatusResponse("Available"))
            /\ pc' = "idle"]_vars
    /\ []OnlyAvailable

\* C5, amended: every StatusQuery read in Idle has exactly one
\* StatusResponse(Available) written for it and leaves the loop in Idle,
\* unless that write fails, which ends the run with status 1 and nothing
\* written; no other status is ever sent.
C5_StatusRoundTrip ==
    /\ [][LoopReadOf({"ExecutorStatusQuery"}) =>
            \/ /\ out' = Append(out, ExecutorStatusResponse("Available"))
               /\ pc' = "idle" /\ exit' = -1
            \/ /\ out' = out
               /\ pc' = "exited" /\ exit' = 1 /\ cause' = "write"]_vars
    /\ []OnlyAvailable

C5_Witness ==
    /\ pc = "idle" /\ reads >= 2 /\ last.msg = ExecutorStatusQuery
    /\ Len(out) >= 3
    /\ out[Len(out)] = ExecutorStatusResponse("Available")
    /\ out[Len(out) - 1] = ExecutorStatusResponse("Available")

\* The dispatch loop's latest read returned a CloseConnection.
Closed == reads > 0 /\ last.err = "" /\ last.msg.type = "CloseConnection"

\* C6: a CloseConnection{id} read in Idle ends the run with status 0 whatever
\* its id is, and nothing is written, run or read after it.
C6_CloseHandling ==
    /\ [][LoopReadOf({"CloseConnection"}) =>
            pc' = "exited" /\ exit' = 0 /\ out' = out /\ executed' = executed]_vars
    /\ [][Closed => UNCHANGED vars]_vars

C6_Witness ==
    /\ Closed /\ pc = "exited" /\ exit = 0
    /\ uid = "X" /\ last.msg.arg = "Y"

\* The dispatch loop's latest read failed on the first byte of a message
\* because the peer was gone.
DisconnectedAtBoundary ==
    reads > 0 /\ last.err # "" /\ last.io \in DisconnectKinds /\ last.used = 0

\* C7: a read in Idle that fails with connection reset, connection aborted
\* or end-of-stream before any byte of a message is consumed ends the run
\* with status 0, and nothing is written, run or read after it.
C7_GracefulDisconnect ==
    /\ [][(LoopRead /\ last'.err # "" /\ last'.io \in DisconnectKinds /\ last'.used = 0) =>
            pc' = "exited" /\ exit' = 0 /\ out' = out /\ executed' = executed]_vars
    /\ [][DisconnectedAtBoundary => UNCHANGED vars]_vars

C7_Witness ==
    /\ DisconnectedAtBoundary /\ pc = "exited" /\ exit = 0
    /\ last.io = "UnexpectedEof" /\ Len(out) > 1

\* The latest read failed on a read error of a disconnect kind after it had
\* consumed part of a message.
Truncated ==
    /\ last.err \in {"InvalidMarkerRead", "InvalidDataRead"}
    /\ last.io \in DisconnectKinds
    /\ last.used > 0

\* C8: a peer close after at least one byte of a message has been consumed
\* never ends the run as a graceful shutdown: the exit status is non-zero.
C8_TruncationIsFatal == Truncated => (pc = "exited" /\ exit # 0)

\* The run ended on an orderly CloseConnection or on a read failure that the
\* loop classified as the peer having disconnected.
GracefulEnd ==
    reads > 0 /\ IF last.err = "" THEN last.msg.type = "CloseConnection"
                 ELSE Classify(last) = "disconnect"

InvalidVariants ==
    {"ExecutorRegister", "ExecutorRegisterResponse", "JobResult", "ExecutorStatusResponse"}

\* The dispatch loop's latest read returned a variant it does not serve.
Violated == reads > 0 /\ last.err = "" /\ last.msg.type \in InvalidVariants

\* C10: a decoded RegisterRequest, RegisterResponse, JobResult or
\* StatusResponse read by the dispatch loop ends the process with a non-zero
\* status; nothing is written in response and nothing is read afterwards.
C10_ProtocolViolation ==
    /\ [][LoopReadOf(InvalidVariants) =>
            pc' = "exited" /\ exit' = 101 /\ out' = out /\ executed' = executed]_vars
    /\ [][Violated => UNCHANGED vars]_vars

C10_Witness ==
    /\ Violated /\ pc = "exited" /\ exit = 101
    /\ last.msg.type = "ExecutorRegisterResponse" /\ Len(out) > 1

\* C11 as stated: when a job execution fails, no JobResult of any job of
\* that BuildRequest has been written to the connection.
C11_NoPartialResults == crashed => Sent = <<>>

\* C11, amended: when the execution of the k-th job fails, the connection
\* has been given the JobResults of jobs 1..k-1 of that BuildRequest, a
\* partial result set whenever k > 1, and none for job k or a later job.
C11_PartialResults ==
    crashed =>
        /\ Len(Sent) = Len(executed) - 1
        /\ \A i \in 1..Len(Sent) : Sent[i] = JobResult(req[i])
        /\ Len(Sent) < Len(req)

C11_Witness == crashed /\ req = <<"A", "B">> /\ Sent = <<JobResult("A")>>

\* A read of the dispatch loop failed, and not as a peer close found before
\* the first byte of a message.
OtherReadFailure ==
    reads > 0 /\ last.err # "" /\ ~(last.io \in DisconnectKinds /\ last.used = 0)

\* C12: every read or decode failure of the dispatch loop other than a peer
\* close at a message boundary ends the process with a non-zero status; none
\* is treated as a graceful shutdown.
C12_OtherFailuresFatal == OtherReadFailure => (pc = "exited" /\ exit # 0)

\* The responses one command calls for.
Responses(msg) ==
    CASE msg.type = "BuildRequest" -> [i \in 1..Len(msg.jobs) |-> JobResult(msg.jobs[i])]
      [] msg.type = "ExecutorStatusQuery" -> <<ExecutorStatusResponse("Available")>>
      [] OTHER -> <<>>

\* The responses a sequence of commands calls for, in command order.
RECURSIVE Owed(_)
Owed(cs) == IF cs = <<>> THEN <<>> ELSE Responses(Head(cs)) \o Owed(Tail(cs))

\* C13: a message is read only when every response owed for the messages
\* read before it has been written, so the outbound stream is, after the
\* RegisterRequest, the responses of the commands in command order.
C13_OneInFlight ==
    /\ [](out # <<>> => IsPrefix(out, <<ExecutorRegister>> \o Owed(cmds)))
    /\ [][LoopRead => out = <<ExecutorRegister>> \o Owed(cmds)]_vars

C13_Witness ==
    /\ pc = "idle" /\ Len(cmds) = 2
    /\ cmds[1] = ExecutorStatusQuery /\ cmds[2] = BuildRequest(<<"A", "B">>)
    /\ out = <<ExecutorRegister, ExecutorStatusResponse("Available"),
               JobResult("A"), JobResult("B")>>

\* The for loop over the jobs of a BuildRequest is running.
InBuild == pc \in {"execute", "write_result"}

C15_IdentityFixed ==
    /\ [][uid' # uid =>
            /\ pc = "await_register" /\ uid = ""
            /\ last'.err = "" /\ last'.msg.type = "ExecutorRegisterResponse"
            /\ uid' = last'.msg.arg]_vars
    /\ [](reads > 0 => uid \in Ids)

C15_Witness ==
    /\ uid = "X" /\ Len(cmds) >= 2
    /\ cmds[Len(cmds)] \in {CloseConnection("Y"), ExecutorRegisterResponse("Y")}

\* C16: when every call of the executor returns an outcome and every write
\* completes, the serving of a BuildRequest comes back to Idle, and so does
\* the answering of a StatusQuery; a call or write that returns an error is
\* the only other way out.
C16_BackToIdle ==
    /\ InBuild ~> (pc = "idle" \/ crashed \/ wfail)
    /\ [][LoopReadOf({"ExecutorStatusQuery", "BuildRequest"}) =>
            (pc' = "idle" \/ InBuild' \/ wfail')]_vars
    /\ [](pc \in {"main", "connect", "register", "await_register", "idle",
                  "execute", "write_result", "exited"})

C16_Witness ==
    /\ pc = "idle" /\ Serving /\ req = <<"B", "A">>
    /\ jobs = <<>> /\ Len(Sent) = 2 /\ ~wfail /\ ~crashed

\* What the stream holds when every response called for has been written.
Expected == <<ExecutorRegister>> \o earned

\* This step reads, in the dispatch loop, anything but a StatusQuery.
LoopReadUnanswered ==
    LoopRead /\ ~(last'.err = "" /\ last'.msg.type = "ExecutorStatusQuery")

\* C17 as stated: the messages written are exactly one RegisterRequest, one
\* StatusResponse per StatusQuery processed and one JobResult per execution
\* that succeeded (once its write has been reached), and nothing is written
\* on a CloseConnection, an invalid variant or a failed read.
C17_ExactlyTheResponses ==
    /\ []((out # <<>> /\ pc # "write_result") => out = Expected)
    /\ [](out = <<>> => earned = <<>>)
    /\ [][LoopReadUnanswered => out' = out]_vars

\* C17, amended: the messages written are one RegisterRequest, then one
\* StatusResponse per StatusQuery processed and one JobResult per execution
\* that succeeded, in that order and without the one response whose write is
\* still to come or has failed; nothing is written on a CloseConnection, an
\* invalid variant or a failed read.
C17_NothingUnsolicited ==
    /\ [](out # <<>> =>
            /\ IsPrefix(out, Expected)
            /\ Len(out) >= Len(Expected) - 1
            /\ Len(out) < Len(Expected) => (pc = "write_result" \/ wfail))
    /\ [](out = <<>> => earned = <<>>)
    /\ [][LoopReadUnanswered => out' = out]_vars

C17_Witness ==
    /\ pc = "idle" /\ Len(cmds) = 2
    /\ earned = <<JobResult("B"), ExecutorStatusResponse("Available")>>
    /\ out = Expected

\* C18: a BuildRequest with an empty job list calls the executor zero times,
\* writes nothing and leaves the loop in Idle.
C18_EmptyBuild ==
    /\ [][(LoopReadOf({"BuildRequest"}) /\ last'.msg.jobs = <<>>) =>
            pc' = "idle" /\ exit' = -1 /\ out' = out /\ executed' = <<>>]_vars
    /\ []((Serving /\ req = <<>>) => (pc = "idle" /\ executed = <<>> /\ Sent = <<>>))

C18_Witness ==
    /\ Serving /\ req = <<>> /\ pc = "idle"
    /\ reads = 1 /\ out = <<ExecutorRegister>>

\* C19: a failed write of a JobResult or of a StatusResponse ends the run
\* with an error and exit status 1, never with the success of a graceful
\* disconnect, and after it no job is run and no message is read.
C19_WriteFailureFatal ==
    /\ [](wfail => (pc = "exited" /\ exit = 1 /\ cause = "write"))
    /\ [][wfail => UNCHANGED vars]_vars

C19_Witness ==
    /\ wfail /\ exit = 1 /\ Serving
    /\ arrived # NoRead /\ arrived.err # ""
    /\ Len(jobs) = 2 /\ executed = <<"A">> /\ Sent = <<>>

====
